---------------------------- MODULE Spec2Model ----------------------------
(***************************************************************************)
(* A model of leftysay (src/src/main.rs): the render pipeline              *)
(* (render_image, run_chafa, cache_key, enforce_cache_limit), the program  *)
(* run (main) and the row-budget arithmetic.                               *)
(*                                                                         *)
(* Conventions.  A Rust Result is a record [ok |-> TRUE, val |-> v] or     *)
(* [ok |-> FALSE, err |-> e].  An Option is None or Some(v).  Text that    *)
(* the program only moves around (payloads, diagnostics, messages) is a    *)
(* TLA+ string; text whose bytes the program looks at is given its bytes   *)
(* by as_bytes.  The image's modification time is in milliseconds since   *)
(* the epoch; cache files are stamped with the tick of the run that wrote  *)
(* them, and runs are one tick apart.                                      *)
(***************************************************************************)
EXTENDS Integers, Sequences, FiniteSets, TLC

VARIABLES
    imageMeta,      \* fs::metadata of the image: NoFile or [exists, modified]
    cacheDirExists, \* whether the cache directory exists
    cacheFiles,     \* the cache directory: a set of [name, contents, modified]
    stdout,         \* what the last run of the program printed, in order
    exit,           \* the Result the last run of main returned
    chafaRuns,      \* the renderer processes the last run started, in order
    trace,          \* what the last run went through (inputs and I/O outcomes)
    clock,          \* the time of the last run, in ticks of the file clock
    lastUse,        \* history: for each cache file, the tick of the last run
                    \* that stored it or hit it
    fnArgs,         \* arguments of the function under study (function specs)
    fnResult        \* its result, NotRun before the call

vars == <<imageMeta, cacheDirExists, cacheFiles, stdout, exit,
          chafaRuns, trace, clock, lastUse, fnArgs, fnResult>>

progVars == <<imageMeta, cacheDirExists, cacheFiles, stdout, exit,
              chafaRuns, trace, clock, lastUse>>

\* Option: None or Some(v).
None == [some |-> FALSE]
Some(v) == [some |-> TRUE, val |-> v]

\* fs::metadata of a path that cannot be read.
NoFile == [exists |-> FALSE]

\* fnResult before the call; fnArgs and fnResult where no function is studied.
NotRun == [called |-> FALSE]
Idle == [fn |-> "none"]

Ok(v) == [ok |-> TRUE, val |-> v]
Err(e) == [ok |-> FALSE, err |-> e]

Min(a, b) == IF a <= b THEN a ELSE b
Max(a, b) == IF a >= b THEN a ELSE b

RECURSIVE Flatten(_)
Flatten(ss) == IF ss = <<>> THEN <<>> ELSE Head(ss) \o Flatten(Tail(ss))

(***************************************************************************)
(* Program constants.                                                      *)
(***************************************************************************)
UsizeBytes == 8
U64Bytes == 8
MillisPerSec == 1000

(***************************************************************************)
(* enum ChafaFormat, enum ChafaColors and their as_arg.                    *)
(***************************************************************************)
ChafaFormat == {"Auto", "Unicode", "Kitty", "Iterm2", "Sixel"}
ChafaColors == {"Auto", "Truecolor", "C256", "C16"}

format_as_arg(f) ==
    CASE f = "Auto" -> "auto"
      [] f = "Unicode" -> "symbols"
      [] f = "Kitty" -> "kitty"
      [] f = "Iterm2" -> "iterm"
      [] f = "Sixel" -> "sixels"

colors_as_arg(c) ==
    CASE c = "Auto" -> "auto"
      [] c = "Truecolor" -> "full"
      [] c = "C256" -> "256"
      [] c = "C16" -> "16"

(***************************************************************************)
(* str::as_bytes on the strings cache_key hashes: their ASCII codes.       *)
(***************************************************************************)
as_bytes(s) ==
    CASE s = "auto" -> <<97, 117, 116, 111>>
      [] s = "symbols" -> <<115, 121, 109, 98, 111, 108, 115>>
      [] s = "kitty" -> <<107, 105, 116, 116, 121>>
      [] s = "iterm" -> <<105, 116, 101, 114, 109>>
      [] s = "sixels" -> <<115, 105, 120, 101, 108, 115>>
      [] s = "full" -> <<102, 117, 108, 108>>
      [] s = "256" -> <<50, 53, 54>>
      [] s = "16" -> <<49, 54>>
      [] s = "image.png" -> <<105, 109, 97, 103, 101, 46, 112, 110, 103>>
      [] s = "b.png" -> <<98, 46, 112, 110, 103>>

\* uN::to_le_bytes: the w bytes of n, least significant first.
RECURSIVE to_le_bytes(_, _)
to_le_bytes(n, w) ==
    IF w = 0 THEN <<>> ELSE <<n % 256>> \o to_le_bytes(n \div 256, w - 1)

\* Duration::as_secs of a duration in ms.
as_secs(d) == d \div MillisPerSec

\* bool as u8
bool_as_u8(b) == IF b THEN 1 ELSE 0

(***************************************************************************)
(* cache_key.  mtime_secs is the u64 the code derives from the metadata;   *)
(* KeyInput is the concatenation of the hasher.update arguments, in order. *)
(* blake3 is not computed: the digest is modelled as collision-free, the   *)
(* hex string of a digest standing for the bytes that were hashed.         *)
(***************************************************************************)
mtime_secs(meta) ==
    IF meta.modified = None THEN 0 ELSE as_secs(meta.modified.val)

KeyInputNarrowCols(image, mtime, cols, rows, format, colors, animate) ==
    Flatten(<<as_bytes(image),
              to_le_bytes(mtime, U64Bytes),
              to_le_bytes(cols, 1),
              to_le_bytes(rows, UsizeBytes),
              as_bytes(format_as_arg(format)),
              as_bytes(colors_as_arg(colors)),
              <<bool_as_u8(animate)>> >>)

KeyInput(image, mtime, cols, rows, format, colors, animate) ==
    Flatten(<<as_bytes(image),
              to_le_bytes(mtime, U64Bytes),
              to_le_bytes(cols, UsizeBytes),
              to_le_bytes(rows, UsizeBytes),
              as_bytes(format_as_arg(format)),
              as_bytes(colors_as_arg(colors)),
              <<bool_as_u8(animate)>> >>)

Blake3Hex(bytes) == <<"blake3">> \o bytes

\* A cache_key that takes an unreadable image for one modified at 0.
CacheKeyOfMissingImage(meta, image, cols, rows, format, colors, animate) ==
    Ok(Blake3Hex(KeyInput(image, IF meta = NoFile THEN 0 ELSE mtime_secs(meta),
                          cols, rows, format, colors, animate)))

cache_key(meta, image, cols, rows, format, colors, animate) ==
    IF meta = NoFile
    THEN Err([msg |-> "reading image metadata"])
    ELSE Ok(Blake3Hex(KeyInput(image, mtime_secs(meta), cols, rows,
                               format, colors, animate)))


(***************************************************************************)
(* The external renderer.  What a process wrote is a sequence of chunks of *)
(* bytes (a chunk stands for ChunkBytes bytes); the chunk "xFF" is not     *)
(* valid UTF-8.  A process the environment runs ends as SpawnErr (it could *)
(* not be started) or as a std::process::Output.                           *)
(***************************************************************************)
SpawnErr == [spawned |-> FALSE]

ChafaStdouts == {<<"A">>, <<"xFF", "B">>}
ChafaStderrs == {<<"e1">>, <<"e2">>}

ProcessOutputs ==
    [spawned : {TRUE}, status : {0, 1},
     stdout : ChafaStdouts, stderr : ChafaStderrs]

ProcessOutcomes == {SpawnErr} \cup ProcessOutputs

\* String::from_utf8_lossy(..).to_string(): invalid sequences become U+FFFD.
from_utf8_lossy(bytes) ==
    [i \in 1..Len(bytes) |-> IF bytes[i] = "xFF" THEN "uFFFD" ELSE bytes[i]]

\* ExitStatus::success
success(status) == status = 0

\* The argument list run_chafa_once gives the command.
chafa_args(image, cols, rows, format, colors, animate) ==
    <<image, "--format", format_as_arg(format),
      "--colors", colors_as_arg(colors),
      "--size", <<cols, "x", rows>> >>
    \o (IF animate THEN <<"--animate">> ELSE <<>>)

(***************************************************************************)
(* run_chafa_once: one renderer process.  outcome is how the environment   *)
(* ends it.  Returns the Result and the process started, as run_chafa      *)
(* sees them.                                                              *)
(***************************************************************************)
run_chafa_once(outcome, image, cols, rows, format, colors, animate) ==
    [res |-> IF outcome = SpawnErr
             THEN Err([msg |-> "running chafa"])
             ELSE Ok(outcome),
     run |-> [args |-> chafa_args(image, cols, rows, format, colors, animate),
              format |-> format, colors |-> colors,
              outcome |-> outcome]]

(***************************************************************************)
(* run_chafa.  procs[1] and procs[2] are the outcomes the environment      *)
(* gives the first and the second process, should they be started.         *)
(* Returns [res, runs]: the Result and the processes started, in order.    *)
(***************************************************************************)
FallbackFormatKeepsAuto(format) == format

fallback_format(format) ==
    IF format = "Auto" THEN "Unicode" ELSE format

fallback_colors(colors) ==
    IF colors = "Auto" THEN "Truecolor" ELSE colors

RunChafaKeepsFirstErr(procs, image, cols, rows, format, colors, animate) ==
    LET first == run_chafa_once(procs[1], image, cols, rows,
                                format, colors, animate)
        ff == fallback_format(format)
        fc == fallback_colors(colors)
        retry == run_chafa_once(procs[2], image, cols, rows, ff, fc, animate)
    IN  IF ~first.res.ok
        THEN [res |-> first.res, runs |-> <<first.run>>]
        ELSE IF success(first.res.val.status)
        THEN [res |-> Ok(from_utf8_lossy(first.res.val.stdout)),
              runs |-> <<first.run>>]
        ELSE IF ff # format \/ fc # colors
        THEN IF ~retry.res.ok
             THEN [res |-> retry.res, runs |-> <<first.run, retry.run>>]
             ELSE IF success(retry.res.val.status)
             THEN [res |-> Ok(from_utf8_lossy(retry.res.val.stdout)),
                   runs |-> <<first.run, retry.run>>]
             ELSE [res |-> Err([msg |-> "chafa failed",
                                diag |-> from_utf8_lossy(first.res.val.stderr)]),
                   runs |-> <<first.run, retry.run>>]
        ELSE [res |-> Err([msg |-> "chafa failed",
                           diag |-> from_utf8_lossy(first.res.val.stderr)]),
              runs |-> <<first.run>>]

run_chafa(procs, image, cols, rows, format, colors, animate) ==
    LET first == run_chafa_once(procs[1], image, cols, rows,
                                format, colors, animate)
        ff == fallback_format(format)
        fc == fallback_colors(colors)
        retry == run_chafa_once(procs[2], image, cols, rows, ff, fc, animate)
    IN  IF ~first.res.ok
        THEN [res |-> first.res, runs |-> <<first.run>>]
        ELSE IF success(first.res.val.status)
        THEN [res |-> Ok(from_utf8_lossy(first.res.val.stdout)),
              runs |-> <<first.run>>]
        ELSE IF ff # format \/ fc # colors
        THEN IF ~retry.res.ok
             THEN [res |-> retry.res, runs |-> <<first.run, retry.run>>]
             ELSE IF success(retry.res.val.status)
             THEN [res |-> Ok(from_utf8_lossy(retry.res.val.stdout)),
                   runs |-> <<first.run, retry.run>>]
             ELSE [res |-> Err([msg |-> "chafa failed",
                                diag |-> from_utf8_lossy(retry.res.val.stderr)]),
                   runs |-> <<first.run, retry.run>>]
        ELSE [res |-> Err([msg |-> "chafa failed",
                           diag |-> from_utf8_lossy(first.res.val.stderr)]),
              runs |-> <<first.run>>]

(***************************************************************************)
(* enforce_cache_limit.  A directory is [exists, readable, entries]:       *)
(* entries is what fs::read_dir yields, in the order it yields it.  An     *)
(* entry is [name, len, modified, statable, removable]: statable says      *)
(* whether DirEntry::metadata succeeds on it, removable whether            *)
(* fs::remove_file does (it fails on a subdirectory, or without            *)
(* permission).                                                            *)
(***************************************************************************)
RECURSIVE SumLen(_)
SumLen(entries) ==
    IF entries = <<>> THEN 0
    ELSE (IF Head(entries).statable THEN Head(entries).len ELSE 0)
         + SumLen(Tail(entries))

\* The sort key: entry.metadata().and_then(|m| m.modified()).ok()
modified_key(e) == IF e.statable THEN Some(e.modified) ELSE None

\* Option<SystemTime>'s order: None first, then by time.
KeyLeq(a, b) == ~a.some \/ (b.some /\ a.val <= b.val)

\* Vec::sort_by_key is stable: e goes after the entries whose key is <= its own.
RECURSIVE InsertByKey(_, _)
InsertByKey(e, sorted) ==
    IF sorted = <<>> THEN <<e>>
    ELSE IF KeyLeq(modified_key(Head(sorted)), modified_key(e))
         THEN <<Head(sorted)>> \o InsertByKey(e, Tail(sorted))
         ELSE <<e>> \o sorted

RECURSIVE SortFrom(_, _)
SortFrom(entries, sorted) ==
    IF entries = <<>> THEN sorted
    ELSE SortFrom(Tail(entries), InsertByKey(Head(entries), sorted))

SortUnsorted(entries) == entries

sort_by_modified(entries) == SortFrom(entries, <<>>)

\* The for loop: the names removed, given the running total.
RECURSIVE EvictLoopCountsFailed(_, _, _)
EvictLoopCountsFailed(entries, total_size, max_bytes) ==
    IF entries = <<>> \/ total_size <= max_bytes THEN {}
    ELSE LET e == Head(entries)
             after == IF e.statable THEN Max(total_size - e.len, 0)
                      ELSE total_size
         IN  (IF e.removable THEN {e.name} ELSE {})
             \cup EvictLoopCountsFailed(Tail(entries), after, max_bytes)

\* A loop that gives up at the first entry it cannot remove.
RECURSIVE EvictLoopStopsAtFailure(_, _, _)
EvictLoopStopsAtFailure(entries, total_size, max_bytes) ==
    IF entries = <<>> \/ total_size <= max_bytes THEN {}
    ELSE IF ~Head(entries).removable THEN {}
    ELSE {Head(entries).name}
         \cup EvictLoopStopsAtFailure(
                 Tail(entries),
                 IF Head(entries).statable
                 THEN Max(total_size - Head(entries).len, 0)
                 ELSE total_size,
                 max_bytes)

\* A loop that never stops early: it removes every entry it can.
EvictLoopRemovesAll(entries, total_size, max_bytes) ==
    {entries[i].name : i \in {j \in 1..Len(entries) : entries[j].removable}}

RECURSIVE EvictLoop(_, _, _)
EvictLoop(entries, total_size, max_bytes) ==
    IF entries = <<>> \/ total_size <= max_bytes THEN {}
    ELSE LET e == Head(entries)
         IN  IF e.removable
             THEN {e.name}
                  \cup EvictLoop(Tail(entries),
                                 IF e.statable
                                 THEN Max(total_size - e.len, 0)
                                 ELSE total_size,
                                 max_bytes)
             ELSE EvictLoop(Tail(entries), total_size, max_bytes)

\* Returns [res, removed]: the Result and the names of the files removed.
enforce_cache_limit(dir, max_bytes) ==
    IF ~dir.exists THEN [res |-> Ok("unit"), removed |-> {}]
    ELSE IF ~dir.readable
    THEN [res |-> Err([msg |-> "reading cache dir"]), removed |-> {}]
    ELSE IF SumLen(dir.entries) <= max_bytes
    THEN [res |-> Ok("unit"), removed |-> {}]
    ELSE [res |-> Ok("unit"),
          removed |-> EvictLoop(sort_by_modified(dir.entries),
                                SumLen(dir.entries), max_bytes)]

(***************************************************************************)
(* The row budget of main: image_rows from the terminal's rows, the        *)
(* bubble's height and max_height_ratio.  The ratio is the rational        *)
(* num/den; the f32 product is modelled as exact.                          *)
(***************************************************************************)
\* f32::floor
floor_mul(n, ratio) == (n * ratio.num) \div ratio.den

\* `as usize` of a floored f32: negative values saturate to 0.
f32_as_usize(x) == IF x < 0 THEN 0 ELSE x

\* usize::saturating_sub
saturating_sub(a, b) == IF a >= b THEN a - b ELSE 0

max_image_rows(term_rows, max_height_ratio) ==
    f32_as_usize(floor_mul(term_rows, max_height_ratio))

remaining_rows(term_rows, bubble_height) ==
    saturating_sub(term_rows, bubble_height + 1)

ImageRowsNoFloor(term_rows, bubble_height, max_height_ratio) ==
    Min(max_image_rows(term_rows, max_height_ratio),
        remaining_rows(term_rows, bubble_height))

image_rows(term_rows, bubble_height, max_height_ratio) ==
    Max(Min(max_image_rows(term_rows, max_height_ratio),
            remaining_rows(term_rows, bubble_height)),
        1)

(***************************************************************************)
(* render_bubble.  A text is the sequence of its characters, each one      *)
(* column wide; str_len is str::len, the length in bytes of its UTF-8      *)
(* encoding.  wrap is textwrap::wrap on a text without line breaks: a text *)
(* of fewer bytes than the width is one line, its trailing spaces trimmed; *)
(* a longer one is split at its spaces, words wider than the width are     *)
(* broken, and the words fill the lines first-fit.                         *)
(***************************************************************************)
DEFAULT_BUBBLE_MAX_WIDTH == 60
BubblePadding == 4
NarrowMargin == 10

repeat(c, n) == [i \in 1..n |-> c]

\* char::len_utf8 of the characters the texts are made of.
len_utf8(c) == IF c = "e_acute" THEN 2 ELSE 1

RECURSIVE str_len(_)
str_len(text) ==
    IF text = <<>> THEN 0 ELSE len_utf8(Head(text)) + str_len(Tail(text))

RECURSIVE trim_end(_)
trim_end(text) ==
    IF text # <<>> /\ text[Len(text)] = " "
    THEN trim_end(SubSeq(text, 1, Len(text) - 1))
    ELSE text

\* The words of a text: its maximal runs of characters other than spaces.
RECURSIVE SplitWords(_, _)
SplitWords(text, word) ==
    IF text = <<>> THEN (IF word = <<>> THEN <<>> ELSE <<word>>)
    ELSE IF Head(text) = " "
         THEN (IF word = <<>> THEN <<>> ELSE <<word>>)
              \o SplitWords(Tail(text), <<>>)
         ELSE SplitWords(Tail(text), Append(word, Head(text)))

\* break_words: a word longer than the width, in pieces of at most the width.
RECURSIVE BreakWord(_, _)
BreakWord(word, width) ==
    IF Len(word) <= width THEN <<word>>
    ELSE <<SubSeq(word, 1, width)>>
         \o BreakWord(SubSeq(word, width + 1, Len(word)), width)

RECURSIVE BreakWords(_, _)
BreakWords(words, width) ==
    IF words = <<>> THEN <<>>
    ELSE BreakWord(Head(words), width) \o BreakWords(Tail(words), width)

RECURSIVE FirstFit(_, _, _)
FirstFit(words, line, width) ==
    IF words = <<>> THEN <<line>>
    ELSE IF line = <<>>
         THEN FirstFit(Tail(words), Head(words), width)
         ELSE IF Len(line) + 1 + Len(Head(words)) <= width
              THEN FirstFit(Tail(words), line \o <<" ">> \o Head(words), width)
              ELSE <<line>> \o FirstFit(Tail(words), Head(words), width)

wrap(text, width) ==
    IF str_len(text) < width THEN <<trim_end(text)>>
    ELSE FirstFit(BreakWords(SplitWords(text, <<>>), width), <<>>, width)

\* A pad_line that adds nothing.
PadLineAddsNothing(line, width) == line

pad_line(line, width) ==
    IF str_len(line) < width
    THEN line \o repeat(" ", width - str_len(line))
    ELSE line

RECURSIVE MaxLen(_)
MaxLen(lines) ==
    IF lines = <<>> THEN 0
    ELSE Max(str_len(Head(lines)), MaxLen(Tail(lines)))

\* Side characters that are bars on every line.
BubbleSidesAllBars(idx, n) == <<"|", "|">>

\* The side characters of content line idx (from 0) of n.
bubble_sides(idx, n) ==
    IF idx = 0 THEN <<"/", "\\">>
    ELSE IF idx + 1 = n THEN <<"\\", "/">>
    ELSE <<"|", "|">>

\* A render_bubble whose narrow threshold leaves out the boundary value.
RenderBubbleStrictNarrow(text, term_cols) ==
    IF term_cols < BubblePadding + NarrowMargin THEN <<text>>
    ELSE LET wrapped == wrap(text, Min(saturating_sub(term_cols, BubblePadding),
                                       DEFAULT_BUBBLE_MAX_WIDTH))
         IN  <<<<" ">> \o repeat("_", MaxLen(wrapped) + 2)>>
             \o [i \in 1..Len(wrapped) |->
                    <<"|", " ">> \o pad_line(wrapped[i], MaxLen(wrapped))
                    \o <<" ", "|">>]
             \o <<<<" ">> \o repeat("-", MaxLen(wrapped) + 2)>>

render_bubble(text, term_cols) ==
    IF term_cols <= BubblePadding + NarrowMargin THEN <<text>>
    ELSE LET bubble_width == Min(saturating_sub(term_cols, BubblePadding),
                                 DEFAULT_BUBBLE_MAX_WIDTH)
             wrapped == wrap(text, bubble_width)
             max_line_len == MaxLen(wrapped)
         IN  IF wrapped = <<>> THEN <<>>
             ELSE <<<<" ">> \o repeat("_", max_line_len + 2)>>
                  \o (IF Len(wrapped) = 1
                      THEN <<<<"<", " ">> \o pad_line(wrapped[1], max_line_len)
                             \o <<" ", ">">> >>
                      ELSE [i \in 1..Len(wrapped) |->
                              <<bubble_sides(i - 1, Len(wrapped))[1], " ">>
                              \o pad_line(wrapped[i], max_line_len)
                              \o <<" ", bubble_sides(i - 1, Len(wrapped))[2]>>])
                  \o <<<<" ">> \o repeat("-", max_line_len + 2)>>

(***************************************************************************)
(* render_image.  fs is the filesystem as the call finds it: [meta,        *)
(* dir_exists, files], files the set of cache files [name, contents,       *)
(* modified].  io is what the environment does during the call:            *)
(*   now          the time of the writes                                   *)
(*   procs        the outcomes of the renderer processes                   *)
(*   lookup       how reading and rewriting a cache file found ends:       *)
(*                "ok", "read_err", "create_err" (fs::write cannot open    *)
(*                the file) or "write_err" (opened and truncated, then the *)
(*                write fails)                                             *)
(*   store        how storing ends: "ok", "mkdir_err", "create_err" or     *)
(*                "write_err" (created, then the write fails)              *)
(*   readdir_ok   whether fs::read_dir succeeds                            *)
(*   reverse      whether it lists the files in the reverse of the order   *)
(*                DirOrder gives them                                      *)
(*   fault        [pos, kind]: the entry listed at pos cannot be read      *)
(*                ("stat") or removed ("remove"); pos 0 is no entry        *)
(* Returns [res, dir_exists, files, runs, lookup, store, removed, path]:   *)
(* path is the cache file of the request, None when no key was computed.   *)
(***************************************************************************)
ChunkBytes == 1048576
CACHE_FILE_EXT == "txt"

file_len(contents) == Len(contents) * ChunkBytes

cache_file_name(key) == <<key, CACHE_FILE_EXT>>

Names(files) == {f.name : f \in files}

FileAt(files, name) == CHOOSE f \in files : f.name = name

\* fs::write / File::create + write_all: the file replaced or created.
WriteFile(files, name, contents, now) ==
    {f \in files : f.name # name}
    \cup {[name |-> name, contents |-> contents, modified |-> now]}

\* The files in some fixed order, and in its reverse.
RECURSIVE DirOrder(_)
DirOrder(files) ==
    IF files = {} THEN <<>>
    ELSE LET f == CHOOSE x \in files : TRUE
         IN  <<f>> \o DirOrder(files \ {f})

Reverse(seq) == [i \in 1..Len(seq) |-> seq[Len(seq) + 1 - i]]

\* The cache directory as fs::read_dir lists it.
DirListing(files, io) ==
    LET listed == IF io.reverse THEN Reverse(DirOrder(files))
                  ELSE DirOrder(files)
    IN  [exists |-> TRUE, readable |-> io.readdir_ok,
         entries |-> [i \in 1..Len(listed) |->
            [name |-> listed[i].name, len |-> file_len(listed[i].contents),
             modified |-> listed[i].modified,
             statable |-> ~(io.fault.pos = i /\ io.fault.kind = "stat"),
             removable |-> ~(io.fault.pos = i /\ io.fault.kind = "remove")]]]

Unchanged(fs, res, runs, lookup, store) ==
    [res |-> res, dir_exists |-> fs.dir_exists, files |-> fs.files,
     runs |-> runs, lookup |-> lookup, store |-> store, removed |-> {}]

IoError(op) == Err([msg |-> "io error", op |-> op])

StoreAndEnforce(fs, io, cache_path, output, runs, max_bytes) ==
    IF io.store = "mkdir_err"
    THEN Unchanged(fs, IoError("create_dir_all"), runs, "absent", "mkdir_err")
    ELSE IF io.store = "create_err"
    THEN [res |-> IoError("File::create"), dir_exists |-> TRUE,
          files |-> fs.files, runs |-> runs, lookup |-> "absent",
          store |-> "create_err", removed |-> {}]
    ELSE IF io.store = "write_err"
    THEN [res |-> IoError("write_all"), dir_exists |-> TRUE,
          files |-> WriteFile(fs.files, cache_path, <<>>, io.now),
          runs |-> runs, lookup |-> "absent",
          store |-> "write_err", removed |-> {}]
    ELSE LET written == WriteFile(fs.files, cache_path, output, io.now)
             e == enforce_cache_limit(DirListing(written, io), max_bytes)
         IN  [res |-> IF e.res.ok THEN Ok(output) ELSE e.res,
              dir_exists |-> TRUE,
              files |-> {f \in written : f.name \notin e.removed},
              runs |-> runs, lookup |-> "absent",
              store |-> IF e.res.ok THEN "stored" ELSE "readdir_err",
              removed |-> e.removed]

\* A hit that drops every other entry of the cache.
LookupHitDropsOthers(fs, io, cache_path) ==
    [res |-> Ok(FileAt(fs.files, cache_path).contents),
     dir_exists |-> fs.dir_exists,
     files |-> WriteFile({}, cache_path, FileAt(fs.files, cache_path).contents,
                         io.now),
     runs |-> <<>>, lookup |-> "hit", store |-> "none", removed |-> {}]

\* A hit that returns the contents without rewriting the file.
LookupHitNoTouch(fs, io, cache_path) ==
    Unchanged(fs, Ok(FileAt(fs.files, cache_path).contents), <<>>, "hit",
              "none")

\* A hit that returns an empty payload instead of the file's contents.
LookupHitForgets(fs, io, cache_path) ==
    [res |-> Ok(<<>>), dir_exists |-> fs.dir_exists,
     files |-> WriteFile(fs.files, cache_path, <<>>, io.now),
     runs |-> <<>>, lookup |-> "hit", store |-> "none", removed |-> {}]

LookupHit(fs, io, cache_path) ==
    LET contents == FileAt(fs.files, cache_path).contents
    IN  IF io.lookup = "read_err"
        THEN Unchanged(fs, IoError("read_to_string"), <<>>, "read_err", "none")
        ELSE IF io.lookup = "create_err"
        THEN Unchanged(fs, IoError("write"), <<>>, "create_err", "none")
        ELSE IF io.lookup = "write_err"
        THEN [res |-> IoError("write"), dir_exists |-> fs.dir_exists,
              files |-> WriteFile(fs.files, cache_path, <<>>, io.now),
              runs |-> <<>>, lookup |-> "write_err", store |-> "none",
              removed |-> {}]
        ELSE [res |-> Ok(contents), dir_exists |-> fs.dir_exists,
              files |-> WriteFile(fs.files, cache_path, contents, io.now),
              runs |-> <<>>, lookup |-> "hit", store |-> "none",
              removed |-> {}]

\* A render_image that looks the request up whether the cache is enabled
\* or not.
RenderImageAlwaysLooksUp(fs, io, image, options) ==
    LET k == cache_key(fs.meta, image, options.cols, options.rows,
                       options.format, options.colors, options.animate)
        r == run_chafa(io.procs, image, options.cols, options.rows,
                       options.format, options.colors, options.animate)
    IN  IF ~k.ok
        THEN [path |-> None] @@ Unchanged(fs, k, <<>>, "none", "none")
        ELSE [path |-> Some(cache_file_name(k.val))] @@
             IF cache_file_name(k.val) \in Names(fs.files)
             THEN LookupHit(fs, io, cache_file_name(k.val))
             ELSE IF ~r.res.ok \/ ~options.cache_enabled
             THEN Unchanged(fs, r.res, r.runs,
                            IF options.cache_enabled THEN "absent" ELSE "none",
                            "none")
             ELSE StoreAndEnforce(fs, io, cache_file_name(k.val), r.res.val,
                                  r.runs, options.cache_max_mb * 1024 * 1024)

\* A render_image that leaves an empty entry behind when the renderer
\* fails.
RenderImageStoresFailure(fs, io, image, options) ==
    LET k == cache_key(fs.meta, image, options.cols, options.rows,
                       options.format, options.colors, options.animate)
        r == run_chafa(io.procs, image, options.cols, options.rows,
                       options.format, options.colors, options.animate)
    IN  IF ~k.ok
        THEN [path |-> None] @@ Unchanged(fs, k, <<>>, "none", "none")
        ELSE [path |-> Some(cache_file_name(k.val))] @@
             IF options.cache_enabled
                /\ cache_file_name(k.val) \in Names(fs.files)
             THEN LookupHit(fs, io, cache_file_name(k.val))
             ELSE IF ~options.cache_enabled
             THEN Unchanged(fs, r.res, r.runs, "none", "none")
             ELSE IF ~r.res.ok
             THEN [res |-> r.res, dir_exists |-> TRUE,
                   files |-> WriteFile(fs.files, cache_file_name(k.val),
                                       <<>>, io.now),
                   runs |-> r.runs, lookup |-> "absent",
                   store |-> "write_err", removed |-> {}]
             ELSE StoreAndEnforce(fs, io, cache_file_name(k.val), r.res.val,
                                  r.runs, options.cache_max_mb * 1024 * 1024)

render_image(fs, io, image, options) ==
    LET k == cache_key(fs.meta, image, options.cols, options.rows,
                       options.format, options.colors, options.animate)
    IN  IF ~k.ok
        THEN [path |-> None] @@ Unchanged(fs, k, <<>>, "none", "none")
        ELSE [path |-> Some(cache_file_name(k.val))] @@
             IF options.cache_enabled
                /\ cache_file_name(k.val) \in Names(fs.files)
             THEN LookupHit(fs, io, cache_file_name(k.val))
             ELSE LET r == run_chafa(io.procs, image, options.cols,
                                     options.rows, options.format,
                                     options.colors, options.animate)
                      lookup == IF options.cache_enabled THEN "absent"
                                ELSE "none"
                  IN  IF ~r.res.ok
                      THEN Unchanged(fs, r.res, r.runs, lookup, "none")
                      ELSE IF ~options.cache_enabled
                      THEN Unchanged(fs, r.res, r.runs, lookup, "none")
                      ELSE StoreAndEnforce(fs, io, cache_file_name(k.val),
                                           r.res.val, r.runs,
                                           options.cache_max_mb * 1024 * 1024)

(***************************************************************************)
(* find_chafa.  tool is the environment it looks at: override says whether *)
(* LEFTYSAY_CHAFA is "unset", names a renderer ("valid") or names nothing  *)
(* that runs ("dangling"); on_path whether PATH holds a chafa file.        *)
(***************************************************************************)
find_chafa(tool) ==
    IF tool.override # "unset" THEN Ok("LEFTYSAY_CHAFA")
    ELSE IF tool.on_path THEN Ok("PATH")
    ELSE Err([msg |-> "leftysay requires chafa"])

(***************************************************************************)
(* main: one run of the program.  in is what the run is given:             *)
(*   config    "error" (load_config fails), "disabled" or "ok"             *)
(*   tool      the environment of find_chafa                               *)
(*   mode      "doctor", "list" or "render"                                *)
(*   packs     "scan_err" (scan_packs fails), "resolve_err"                *)
(*             (resolve_message or resolve_image fails) or "ok"            *)
(*   term, no_bubble, message, image, format, colors, max_height_ratio,    *)
(*   animate, cache, cache_max_mb: the values main merges from the command *)
(*             line, the configuration and the terminal                    *)
(* Returns [exit, stdout, render]: render is render_image's record, or     *)
(* NotReached when the run ends before it.                                 *)
(***************************************************************************)
DEFAULT_MAX_HEIGHT_RATIO == [num |-> 55, den |-> 100]
DefaultTerminal == <<80, 24>>

Printed(kind, text) == [kind |-> kind, text |-> text]

NotReached == [reached |-> FALSE]

Ended(res, out) == [exit |-> res, stdout |-> out, render |-> NotReached]

\* What lines 198-210 print.
print_bubble(bubble, message, no_bubble) ==
    IF bubble # <<>>
    THEN [i \in 1..Len(bubble) |-> Printed("bubble", bubble[i])]
    ELSE IF message # <<>> /\ ~no_bubble
    THEN <<Printed("message", message)>>
    ELSE <<>>

BubbleThenImage(fs, in, io) ==
    LET term_cols == in.term[1]
        term_rows == in.term[2]
        bubble == IF in.no_bubble THEN <<>>
                  ELSE render_bubble(in.message, term_cols)
        printed == print_bubble(bubble, in.message, in.no_bubble)
        rows == image_rows(term_rows, Len(bubble), in.max_height_ratio)
        r == render_image(fs, io, in.image,
                 [cols |-> term_cols, rows |-> rows, format |-> in.format,
                  colors |-> in.colors, animate |-> in.animate,
                  cache_enabled |-> in.cache,
                  cache_max_mb |-> in.cache_max_mb])
        render == [reached |-> TRUE] @@ r
    IN  IF ~r.res.ok
        THEN [exit |-> r.res, stdout |-> printed, render |-> render]
        ELSE [exit |-> Ok("unit"),
              stdout |-> printed \o <<Printed("image", r.res.val)>>,
              render |-> render]

main(fs, in, io) ==
    IF in.config = "error" THEN Ended(Err([msg |-> "config"]), <<>>)
    ELSE IF in.config = "disabled" THEN Ended(Ok("unit"), <<>>)
    ELSE IF ~find_chafa(in.tool).ok
    THEN Ended(Err([msg |-> "chafa missing"]), <<>>)
    ELSE IF in.mode = "doctor"
    THEN Ended(Ok("unit"), <<Printed("doctor", <<>>)>>)
    ELSE IF in.packs = "scan_err" THEN Ended(Err([msg |-> "packs"]), <<>>)
    ELSE IF in.mode = "list"
    THEN Ended(Ok("unit"), <<Printed("list", <<>>)>>)
    ELSE IF in.packs = "resolve_err"
    THEN Ended(Err([msg |-> "pack not found"]), <<>>)
    ELSE BubbleThenImage(fs, in, io)

(***************************************************************************)
(* Bounds of the function specifications.                                  *)
(***************************************************************************)
MaxEntries == 3
RatioDen == 4
MaxRows == 8
MaxBubbleHeight == 4
MaxWords == 3
MaxCols == 20
LongWordLen == 12

EntrySizes == {0, 1, 2}
EntryMtimes == {1, 2}
Budgets == {0, 1, 3}
KeyCols == {1, 256, 257}
KeyRows == {1, 256}
KeyMtimes == {0, 1}

(***************************************************************************)
(* The program before its first run: no cache directory, nothing printed.  *)
(***************************************************************************)
NoRun == [ran |-> FALSE]

ProgInit ==
    /\ imageMeta = NoFile
    /\ cacheDirExists = FALSE
    /\ cacheFiles = {}
    /\ stdout = <<>>
    /\ exit = Ok("unit")
    /\ chafaRuns = <<>>
    /\ trace = NoRun
    /\ clock = 0
    /\ lastUse = <<>>

(***************************************************************************)
(* The program and its environment (Spec).  Run is one run of main, with   *)
(* inputs and I/O outcomes of the environment's choosing; ImageChanges is  *)
(* the image file being replaced, touched or removed between runs.         *)
(***************************************************************************)
MaxClock == 2
MaxCacheMb == 2

ImageMtimes == {500, 900, 1000}
ImageMetas ==
    {NoFile} \cup {[exists |-> TRUE, modified |-> Some(m)] : m \in ImageMtimes}

Selectors == {<<"Auto", "Auto">>, <<"Kitty", "C256">>}
Messages == {<<"h", "i">>}
Tools == {[override |-> "unset", on_path |-> TRUE],
          [override |-> "unset", on_path |-> FALSE],
          [override |-> "dangling", on_path |-> FALSE]}

\* The outcomes of a renderer process that tell the runs of main apart:
\* it cannot be started, it exits with zero and one of the payloads, or it
\* exits non-zero.
RunOutcomes ==
    {SpawnErr}
    \cup {o \in ProcessOutputs :
            /\ o.stderr = <<"e1">>
            /\ success(o.status) \/ o.stdout = <<"A">>}

\* Runs that end before rendering.
EarlyInputs ==
    [config : {"error", "disabled"}, tool : {[override |-> "unset",
                                              on_path |-> TRUE]},
     mode : {"render"}, packs : {"ok"}]
    \cup [config : {"ok"}, tool : {[override |-> "unset", on_path |-> FALSE]},
          mode : {"render"}, packs : {"ok"}]
    \cup [config : {"ok"}, tool : {[override |-> "unset", on_path |-> TRUE]},
          mode : {"doctor", "list"}, packs : {"ok"}]
    \cup [config : {"ok"}, tool : {[override |-> "unset", on_path |-> TRUE]},
          mode : {"render"}, packs : {"scan_err", "resolve_err"}]

\* Runs that reach render_image.  The cache budget varies where the cache
\* is enabled; a LEFTYSAY_CHAFA that names nothing goes with one choice of
\* the rest.
RenderInput(t, nb, m, sel, c, mb) ==
    [config |-> "ok", tool |-> t, mode |-> "render", packs |-> "ok",
     term |-> DefaultTerminal, no_bubble |-> nb, message |-> m,
     image |-> "image.png", format |-> sel[1], colors |-> sel[2],
     max_height_ratio |-> DEFAULT_MAX_HEIGHT_RATIO, animate |-> FALSE,
     cache |-> c, cache_max_mb |-> mb]

RenderInputs ==
    {in \in
        {RenderInput(t, nb, m, sel, c, mb) :
            t \in {x \in Tools : find_chafa(x).ok}, nb \in BOOLEAN,
            m \in Messages, sel \in Selectors, c \in BOOLEAN,
            mb \in 1..MaxCacheMb} :
        /\ in.cache \/ in.cache_max_mb = 1
        /\ in.tool.override = "unset"
           \/ (~in.no_bubble /\ in.format = "Auto" /\ in.cache_max_mb = 1)}

\* An environment in which no I/O fails and no renderer can be started.
QuietIo ==
    [now |-> 0, procs |-> <<SpawnErr, SpawnErr>>, lookup |-> "ok",
     store |-> "ok", readdir_ok |-> TRUE, reverse |-> FALSE,
     fault |-> [pos |-> 0, kind |-> "stat"]]

Fs == [meta |-> imageMeta, dir_exists |-> cacheDirExists,
       files |-> cacheFiles]

\* The renderer processes the environment may give a run: none starts when
\* LEFTYSAY_CHAFA names nothing that runs; the second matters only after a
\* first that exited non-zero.
ProcChoices(in) ==
    IF in.tool.override = "dangling" THEN {<<SpawnErr, SpawnErr>>}
    ELSE UNION {{<<p1, p2>> :
                    p2 \in {p \in RunOutcomes :
                              \/ p = SpawnErr
                              \/ /\ p1.spawned /\ ~success(p1.status)
                                 /\ p.stdout = <<"A">>}}
                : p1 \in RunOutcomes}

\* The directory as an eviction pass may meet it: the order of the listing
\* and at most one entry that cannot be read or removed.
DirChoices(n) ==
    {[reverse |-> r, fault |-> [pos |-> p, kind |-> k]] :
        r \in BOOLEAN, p \in 1..n, k \in {"stat", "remove"}}
    \cup {[reverse |-> r, fault |-> [pos |-> 0, kind |-> "stat"]] :
            r \in BOOLEAN}

\* The I/O outcomes that can tell this run from others.  The run is first
\* made in a quiet environment to see which I/O it reaches: a run that
\* reaches none has one environment, a pass that removes nothing when
\* nothing fails has one directory.
LookupChoices(now) ==
    {[QuietIo EXCEPT !.now = now, !.lookup = l] :
        l \in {"ok", "read_err", "create_err", "write_err"}}

StoreChoices(fs, in, io) ==
    LET dry == main(fs, in, io).render
    IN  {[io EXCEPT !.store = st] :
            st \in {"create_err", "write_err"}
                   \cup (IF fs.dir_exists THEN {} ELSE {"mkdir_err"})}
        \cup {[io EXCEPT !.readdir_ok = FALSE]}
        \cup (IF dry.removed = {} THEN {io}
              ELSE {[io EXCEPT !.reverse = d.reverse, !.fault = d.fault] :
                      d \in DirChoices(Cardinality(dry.files)
                                       + Cardinality(dry.removed))})

IoChoices(fs, in, now) ==
    LET quiet == main(fs, in, QuietIo).render
    IN  IF ~quiet.reached \/ (quiet.lookup = "none" /\ quiet.runs = <<>>)
        THEN {QuietIo}
        ELSE IF quiet.lookup = "hit" THEN LookupChoices(now)
        ELSE UNION {
               LET io == [QuietIo EXCEPT !.procs = ps, !.now = now]
               IN  IF main(fs, in, io).render.store = "none" THEN {io}
                   ELSE StoreChoices(fs, in, io)
               : ps \in ProcChoices(in)}

Init ==
    /\ ProgInit
    /\ fnArgs = Idle
    /\ fnResult = NotRun

\* One run of main on inputs in, in the environment io.
RunOf(in, io) ==
    /\ clock' = clock + 1
    /\ \E r \in {main(Fs, in, io)} :
         IF ~r.render.reached
         THEN /\ exit' = r.exit
              /\ stdout' = r.stdout
              /\ chafaRuns' = <<>>
              /\ trace' = [ran |-> TRUE, in |-> in, meta |-> imageMeta,
                           reached |-> FALSE, lookup |-> "none",
                           store |-> "none", removed |-> {},
                           path |-> None, fault |-> QuietIo.fault]
              /\ UNCHANGED <<cacheDirExists, cacheFiles, lastUse>>
         ELSE /\ exit' = r.exit
              /\ stdout' = r.stdout
              /\ chafaRuns' = r.render.runs
              /\ cacheDirExists' = r.render.dir_exists
              /\ cacheFiles' = r.render.files
              /\ trace' = [ran |-> TRUE, in |-> in, meta |-> imageMeta,
                           reached |-> TRUE, lookup |-> r.render.lookup,
                           store |-> r.render.store,
                           removed |-> r.render.removed,
                           path |-> r.render.path, fault |-> io.fault]
              /\ lastUse' =
                    [n \in Names(r.render.files) |->
                        IF /\ r.render.path = Some(n)
                           /\ \/ r.render.lookup = "hit"
                              \/ r.render.store \in {"stored", "readdir_err",
                                                     "write_err"}
                        THEN clock + 1
                        ELSE lastUse[n]]
    /\ UNCHANGED <<imageMeta, fnArgs, fnResult>>

Run ==
    /\ clock < MaxClock
    /\ \E in \in EarlyInputs \cup RenderInputs :
         \E io \in IoChoices(Fs, in, clock + 1) : RunOf(in, io)

ImageChanges ==
    /\ imageMeta' \in ImageMetas \ {imageMeta}
    /\ UNCHANGED <<cacheDirExists, cacheFiles, stdout, exit, chafaRuns,
                   trace, clock, lastUse, fnArgs, fnResult>>

Next == Run \/ ImageChanges

Spec == Init /\ [][Next]_vars

(***************************************************************************)
(* Successful renders with the cache enabled (SpecLru): longer sequences   *)
(* of runs of main over one image, in which the renderer succeeds and the  *)
(* only I/O that fails is the reading of an entry's metadata or the        *)
(* removal of an entry during an eviction pass.                            *)
(***************************************************************************)
MaxLruClock == 4

LruMeta == [exists |-> TRUE, modified |-> Some(1000)]

\* Three requests, which differ in their selectors.
LruSelectors == Selectors \cup {<<"Sixel", "C16">>}

LruInputs ==
    {RenderInput([override |-> "unset", on_path |-> TRUE], FALSE, m, sel,
                 TRUE, mb) :
        m \in Messages, sel \in LruSelectors, mb \in 1..MaxCacheMb}

LruIoChoices(fs, in, now) ==
    {io \in IoChoices(fs, in, now) :
        /\ io.lookup = "ok" /\ io.store = "ok" /\ io.readdir_ok
        /\ main(fs, in, io).exit.ok
        /\ io.procs[1] = SpawnErr \/ success(io.procs[1].status)}

LruInit ==
    /\ imageMeta = LruMeta
    /\ cacheDirExists = FALSE
    /\ cacheFiles = {}
    /\ stdout = <<>>
    /\ exit = Ok("unit")
    /\ chafaRuns = <<>>
    /\ trace = NoRun
    /\ clock = 0
    /\ lastUse = <<>>
    /\ fnArgs = Idle
    /\ fnResult = NotRun

LruRun ==
    /\ clock < MaxLruClock
    /\ \E in \in LruInputs :
         \E io \in LruIoChoices(Fs, in, clock + 1) : RunOf(in, io)

SpecLru == LruInit /\ [][LruRun]_vars

(***************************************************************************)
(* Function specifications: Init draws the arguments, the one action       *)
(* calls the function.                                                     *)
(***************************************************************************)
Call(fn) ==
    /\ fnArgs.fn = fn
    /\ fnResult = NotRun
    /\ UNCHANGED <<progVars, fnArgs>>

\* run_chafa
InvokeArgs ==
    [fn : {"run_chafa"}, procs : ProcessOutcomes \X ProcessOutcomes,
     image : {"image.png"}, cols : {80}, rows : {13},
     format : ChafaFormat, colors : ChafaColors, animate : BOOLEAN]

InvokeInit == ProgInit /\ fnArgs \in InvokeArgs /\ fnResult = NotRun

Invoke ==
    /\ Call("run_chafa")
    /\ fnResult' =
         LET r == run_chafa(fnArgs.procs, fnArgs.image, fnArgs.cols,
                            fnArgs.rows, fnArgs.format, fnArgs.colors,
                            fnArgs.animate)
         IN  [called |-> TRUE, res |-> r.res, runs |-> r.runs]

SpecInvoke == InvokeInit /\ [][Invoke]_vars

\* enforce_cache_limit
EntryAttrs ==
    [len : EntrySizes, modified : EntryMtimes,
     statable : BOOLEAN, removable : BOOLEAN]

Listings ==
    UNION {[1..n -> EntryAttrs] : n \in 0..MaxEntries}

\* The entries of a listing, named by their place in it.
Named(listing) ==
    [i \in 1..Len(listing) |->
        [name |-> i, len |-> listing[i].len, modified |-> listing[i].modified,
         statable |-> listing[i].statable, removable |-> listing[i].removable]]

Dirs ==
    {[exists |-> e, readable |-> FALSE, entries |-> <<>>] : e \in BOOLEAN}
    \cup {[exists |-> TRUE, readable |-> TRUE, entries |-> Named(l)] :
            l \in Listings}

EnforceArgs == [fn : {"enforce_cache_limit"}, dir : Dirs, max_bytes : Budgets]

EnforceInit == ProgInit /\ fnArgs \in EnforceArgs /\ fnResult = NotRun

Enforce ==
    /\ Call("enforce_cache_limit")
    /\ fnResult' =
         LET r == enforce_cache_limit(fnArgs.dir, fnArgs.max_bytes)
         IN  [called |-> TRUE, res |-> r.res, removed |-> r.removed]

SpecEnforce == EnforceInit /\ [][Enforce]_vars

\* image_rows
Ratios == {[num |-> n, den |-> RatioDen] : n \in (-1)..(RatioDen + 1)}

RowsArgs ==
    [fn : {"image_rows"}, term_rows : 0..MaxRows,
     bubble_height : 0..MaxBubbleHeight, max_height_ratio : Ratios]

RowsInit == ProgInit /\ fnArgs \in RowsArgs /\ fnResult = NotRun

Rows ==
    /\ Call("image_rows")
    /\ fnResult' =
         [called |-> TRUE,
          rows |-> image_rows(fnArgs.term_rows, fnArgs.bubble_height,
                              fnArgs.max_height_ratio)]

SpecRows == RowsInit /\ [][Rows]_vars

\* cache_key, on two requests for the same image
Requests ==
    [cols : KeyCols, rows : KeyRows, format : ChafaFormat,
     colors : ChafaColors, animate : BOOLEAN]

KeyArgs ==
    [fn : {"cache_key"}, image : {"image.png"},
     meta : {[exists |-> TRUE, modified |-> Some(m * MillisPerSec)] :
                m \in KeyMtimes},
     a : Requests, b : Requests]

KeyInit == ProgInit /\ fnArgs \in KeyArgs /\ fnResult = NotRun

KeyOf(meta, image, r) ==
    cache_key(meta, image, r.cols, r.rows, r.format, r.colors, r.animate)

Key ==
    /\ Call("cache_key")
    /\ fnResult' =
         [called |-> TRUE,
          a |-> KeyOf(fnArgs.meta, fnArgs.image, fnArgs.a),
          b |-> KeyOf(fnArgs.meta, fnArgs.image, fnArgs.b)]

SpecKey == KeyInit /\ [][Key]_vars

\* render_bubble
BubbleWords == {<<"a">>, <<"e_acute", "b">>, repeat("x", LongWordLen)}

RECURSIVE Join(_)
Join(words) ==
    IF words = <<>> THEN <<>>
    ELSE IF Len(words) = 1 THEN words[1]
    ELSE words[1] \o <<" ">> \o Join(Tail(words))

\* Texts of up to MaxWords words, and texts that are or end in spaces.
BubbleTexts ==
    {Join(ws) : ws \in UNION {[1..n -> BubbleWords] : n \in 0..MaxWords}}
    \cup {<<" ">>, <<"a", " ", " ">>}

\* Terminal widths about the narrow threshold and about the width cap.
BubbleCols ==
    0..MaxCols
    \cup {DEFAULT_BUBBLE_MAX_WIDTH + BubblePadding + d : d \in {-1, 0, 1}}

BubbleArgs == [fn : {"render_bubble"}, text : BubbleTexts, term_cols : BubbleCols]

BubbleInit == ProgInit /\ fnArgs \in BubbleArgs /\ fnResult = NotRun

Bubble ==
    /\ Call("render_bubble")
    /\ fnResult' = [called |-> TRUE,
                    lines |-> render_bubble(fnArgs.text, fnArgs.term_cols)]

SpecBubble == BubbleInit /\ [][Bubble]_vars

(***************************************************************************)
(* Properties of enforce_cache_limit (SpecEnforce).                        *)
(***************************************************************************)
Entries == {fnArgs.dir.entries[i] : i \in 1..Len(fnArgs.dir.entries)}
Removed == {e \in Entries : e.name \in fnResult.removed}
Survivors == {e \in Entries : e.name \notin fnResult.removed}

RECURSIVE SumOver(_, _)
SumOver(set, readableOnly) ==
    IF set = {} THEN 0
    ELSE LET e == CHOOSE x \in set : TRUE
         IN  (IF readableOnly /\ ~e.statable THEN 0 ELSE e.len)
             + SumOver(set \ {e}, readableOnly)

\* C4 as claimed: after enforce_cache_limit returns, the sizes of the
\* entries still in the directory sum to at most max_bytes.
C4_TotalWithinBudget ==
    fnResult.called => SumOver(Survivors, FALSE) <= fnArgs.max_bytes

\* C4 as amended: after enforce_cache_limit returns Ok, the sizes that could
\* be read of the entries still in the directory sum to at most max_bytes,
\* unless every entry still there is one whose removal failed.
C4_TotalWithinBudgetOrUndeletable ==
    (fnResult.called /\ fnResult.res.ok) =>
        \/ SumOver(Survivors, TRUE) <= fnArgs.max_bytes
        \/ \A e \in Survivors : ~e.removable

\* An eviction pass that had to remove an entry and left one, within budget.
C4_Witness ==
    /\ fnResult.called /\ fnResult.res.ok
    /\ SumOver(Entries, FALSE) > fnArgs.max_bytes
    /\ Removed # {} /\ Survivors # {}
    /\ \E e \in Survivors : e.removable /\ e.len > 0
    /\ SumOver(Survivors, FALSE) <= fnArgs.max_bytes

\* C5 as claimed: no entry is removed while an entry with a strictly older
\* modification time survives.
C5_RemovedArePrefix ==
    fnResult.called =>
        \A r \in Removed, e \in Survivors : ~(e.modified < r.modified)

\* C5 as amended: no entry whose modification time could be read is removed
\* while an entry with a strictly older modification time survives, unless
\* the removal of that older entry failed.
C5_RemovedArePrefixButUndeletable ==
    fnResult.called =>
        \A r \in Removed, e \in Survivors :
            (r.statable /\ e.modified < r.modified) => ~e.removable

\* An eviction pass that removed the older entry and kept a newer one.
C5_Witness ==
    /\ fnResult.called
    /\ \E r \in Removed, e \in Survivors :
          /\ r.statable /\ e.statable /\ e.removable
          /\ r.modified < e.modified
          /\ r.name > e.name

\* The order of the eviction loop: by modification time, entries whose
\* metadata cannot be read first, ties in the order of the listing (an
\* entry's name is its place in the listing).
Before(a, b) ==
    LET ka == IF a.statable THEN a.modified ELSE -1
        kb == IF b.statable THEN b.modified ELSE -1
    IN  ka < kb \/ (ka = kb /\ a.name < b.name)

\* The running total when the loop comes to e: the sizes it could read of
\* the entries it has not removed before e.
RunningTotalAt(e) ==
    SumOver({x \in Entries : ~(x \in Removed /\ Before(x, e))}, TRUE)

\* C15: enforce_cache_limit removes nothing when the total it reads is
\* within max_bytes; otherwise it removes an entry only while the running
\* total still exceeds max_bytes, so the survivors together with the last
\* entry removed exceed max_bytes.
C15_EvictsNoMoreThanNeeded ==
    (fnResult.called /\ fnResult.res.ok) =>
        /\ SumOver(Entries, TRUE) <= fnArgs.max_bytes => Removed = {}
        /\ \A e \in Removed : RunningTotalAt(e) > fnArgs.max_bytes
        /\ \A e \in Removed :
              (\A x \in Removed : x = e \/ Before(x, e))
                  => SumOver(Survivors \cup {e}, FALSE) > fnArgs.max_bytes

\* A pass that stopped early: it removed an entry and kept a newer one that
\* it could have removed, under a budget that is not zero.
C15_Witness ==
    /\ fnResult.called
    /\ fnArgs.max_bytes > 0
    /\ \E r \in Removed, e \in Survivors :
          /\ r.statable /\ r.len > 0
          /\ e.statable /\ e.removable /\ e.len > 0
          /\ Before(r, e)

\* C16: a pass over a directory it can list returns success whatever
\* removals fail; an entry that cannot be removed stays and its size stays
\* in the running total, and the loop goes on: every later entry that can
\* be removed is removed if the running total, the failed entries counted,
\* still exceeds max_bytes when the loop comes to it.
C16_DeleteFailureNotFatal ==
    (fnResult.called /\ fnArgs.dir.exists /\ fnArgs.dir.readable) =>
        /\ fnResult.res.ok
        /\ \A e \in Entries : ~e.removable => e \in Survivors
        /\ \A e \in Entries :
              (e.removable /\ RunningTotalAt(e) > fnArgs.max_bytes)
                  => e \in Removed

\* A pass that failed to remove the oldest entry and went on to remove a
\* newer one.
C16_Witness ==
    /\ fnResult.called /\ fnResult.res.ok
    /\ \E u \in Survivors, e \in Removed :
          /\ ~u.removable /\ u.statable /\ u.len > 0
          /\ e.statable
          /\ u.modified < e.modified

(***************************************************************************)
(* Properties of run_chafa (SpecInvoke).                                   *)
(***************************************************************************)
Exited(outcome, ok) ==
    outcome.spawned /\ (success(outcome.status) <=> ok)

Lossy(bytes) == [i \in 1..Len(bytes) |->
                    IF bytes[i] = "xFF" THEN "uFFFD" ELSE bytes[i]]

ChafaFailed(stderr) == Err([msg |-> "chafa failed", diag |-> Lossy(stderr)])

\* C6: a first run that succeeds is the only run; a first run that exits
\* non-zero with format and colors both auto is followed by exactly one
\* retry, with --format symbols and --colors full and every other argument
\* as in the first run; with neither auto there is no retry and the first
\* run's error is returned; there are never more than two runs.
C6_RetryCount ==
    fnResult.called =>
        LET runs == fnResult.runs
            first == fnArgs.procs[1]
        IN  /\ Len(runs) \in {1, 2}
            /\ runs[1].outcome = first
            /\ Exited(first, TRUE) => Len(runs) = 1
            /\ (Exited(first, FALSE) /\ fnArgs.format = "Auto"
                  /\ fnArgs.colors = "Auto") =>
                  /\ Len(runs) = 2
                  /\ Len(runs[2].args) = Len(runs[1].args)
                  /\ \A i \in 1..Len(runs[1].args) :
                        runs[2].args[i] =
                            CASE i = 3 -> "symbols"
                              [] i = 5 -> "full"
                              [] OTHER -> runs[1].args[i]
            /\ (Exited(first, FALSE) /\ fnArgs.format # "Auto"
                  /\ fnArgs.colors # "Auto") =>
                  /\ Len(runs) = 1
                  /\ fnResult.res = ChafaFailed(first.stderr)

\* A first run that failed with both selectors auto, and its retry.
C6_Witness ==
    /\ fnResult.called
    /\ Exited(fnArgs.procs[1], FALSE)
    /\ fnArgs.format = "Auto" /\ fnArgs.colors = "Auto" /\ fnArgs.animate
    /\ Len(fnResult.runs) = 2
    /\ fnResult.runs[2].args[3] = "symbols"

\* C7: when the first run and the retry both exit non-zero, the error
\* carries the retry's standard error; when the first run exits non-zero
\* and there is no retry, it carries the first run's.
C7_RetryDiagnostic ==
    fnResult.called =>
        LET runs == fnResult.runs
            first == fnArgs.procs[1]
            retry == fnArgs.procs[2]
        IN  /\ (Exited(first, FALSE) /\ Len(runs) = 2
                  /\ Exited(retry, FALSE)) =>
                  fnResult.res = ChafaFailed(retry.stderr)
            /\ (Exited(first, FALSE) /\ Len(runs) = 1) =>
                  fnResult.res = ChafaFailed(first.stderr)

\* Both runs failed, with different diagnostics.
C7_Witness ==
    /\ fnResult.called
    /\ Len(fnResult.runs) = 2
    /\ Exited(fnArgs.procs[1], FALSE) /\ Exited(fnArgs.procs[2], FALSE)
    /\ fnArgs.procs[1].stderr # fnArgs.procs[2].stderr
    /\ ~fnResult.res.ok
    /\ fnResult.res.err.diag = fnArgs.procs[2].stderr

(***************************************************************************)
(* Properties of the row budget (SpecRows).                                *)
(***************************************************************************)
RatioInUnit == fnArgs.max_height_ratio.num > 0
               /\ fnArgs.max_height_ratio.num <= fnArgs.max_height_ratio.den

Capped == (fnArgs.term_rows * fnArgs.max_height_ratio.num)
          \div fnArgs.max_height_ratio.den

Remaining ==
    IF fnArgs.term_rows - fnArgs.bubble_height - 1 > 0
    THEN fnArgs.term_rows - fnArgs.bubble_height - 1
    ELSE 0

\* C9 as claimed: for a ratio in (0,1], the row count r satisfies r >= 1,
\* r <= capped and r <= remaining.
C9_RowsWithinBoth ==
    (fnResult.called /\ RatioInUnit) =>
        /\ fnResult.rows >= 1
        /\ fnResult.rows <= Capped
        /\ fnResult.rows <= Remaining

\* C9 as amended: for a ratio in (0,1], r >= 1; r <= capped when capped >= 1
\* and r <= remaining when remaining >= 1; when either is 0, r = 1.
C9_RowsWithinBothOrOne ==
    (fnResult.called /\ RatioInUnit) =>
        /\ fnResult.rows >= 1
        /\ Capped >= 1 => fnResult.rows <= Capped
        /\ Remaining >= 1 => fnResult.rows <= Remaining
        /\ (Capped = 0 \/ Remaining = 0) => fnResult.rows = 1

\* The ratio cap decides: 8 rows, a bubble of 1 line, ratio 1/2.
C9_Witness ==
    /\ fnResult.called /\ RatioInUnit
    /\ Capped >= 2 /\ Capped < Remaining
    /\ fnResult.rows = Capped

(***************************************************************************)
(* Properties of cache_key (SpecKey).                                      *)
(***************************************************************************)
RequestFields == {"cols", "rows", "format", "colors", "animate"}

DifferingFields(a, b) == {f \in RequestFields : a[f] # b[f]}

\* C10: two requests for the same image and modification time that differ
\* in exactly one of cols, rows, format, colors, animate get different keys.
C10_KeySensitive ==
    (fnResult.called /\ Cardinality(DifferingFields(fnArgs.a, fnArgs.b)) = 1)
        => /\ fnResult.a.ok /\ fnResult.b.ok
           /\ fnResult.a.val # fnResult.b.val

\* Two requests that differ in cols only, by a multiple of 256.
C10_Witness ==
    /\ fnResult.called
    /\ DifferingFields(fnArgs.a, fnArgs.b) = {"cols"}
    /\ fnArgs.a.cols = 1 /\ fnArgs.b.cols = 257
    /\ fnResult.a.val # fnResult.b.val

(***************************************************************************)
(* Properties of the program (Spec).                                       *)
(***************************************************************************)
Rendered == trace.ran /\ trace.reached

LastRun == chafaRuns[Len(chafaRuns)]

RendererSucceeded == chafaRuns # <<>> /\ Exited(LastRun.outcome, TRUE)

Payload == Lossy(LastRun.outcome.stdout)

MetadataError == Err([msg |-> "reading image metadata"])

\* C1: a run with the cache enabled whose renderer succeeded (at once or on
\* the retry) ends without error and prints the renderer's payload, even
\* when creating the cache directory, creating or writing the cache file,
\* or listing the directory for the size enforcement fails.
C1_PersistFailureKeepsPayload ==
    (Rendered /\ trace.in.cache /\ RendererSucceeded)
        => /\ exit.ok
           /\ stdout # <<>>
           /\ stdout[Len(stdout)] = Printed("image", Payload)

\* C2: a run with the cache enabled that finds the cache file of its key
\* but fails to read it, or to rewrite it for the touch, goes on to start
\* the renderer and does not end with the I/O error.
C2_LookupFailureIsMiss ==
    (Rendered /\ trace.lookup \in {"read_err", "create_err", "write_err"})
        => /\ chafaRuns # <<>>
           /\ exit.ok \/ exit.err.msg # "io error"

\* C3: a run that ends in a fatal error of the render (the image's metadata
\* unreadable, or the renderer failing after its retry) has written nothing
\* to standard output.
C3_FatalErrorPrintsNothing ==
    (Rendered /\ ~exit.ok
       /\ exit.err.msg \in {"reading image metadata", "chafa failed"})
        => stdout = <<>>

\* C8: a run that reaches render_image while the image's metadata cannot be
\* read ends with the metadata error, with the cache enabled or not; it
\* starts no renderer, reads and touches no cache file, stores nothing,
\* removes nothing, and leaves the cache directory as it was.
C8_MetadataFailureFirst ==
    [][(clock' # clock /\ trace'.reached /\ imageMeta = NoFile) =>
          /\ exit' = MetadataError
          /\ chafaRuns' = <<>>
          /\ trace'.lookup = "none"
          /\ trace'.store = "none"
          /\ trace'.removed = {}
          /\ cacheFiles' = cacheFiles
          /\ cacheDirExists' = cacheDirExists]_vars

\* A run with the cache enabled that failed on the metadata of an image
\* that has gone, over a cache that still holds a file.
C8_Witness ==
    /\ Rendered
    /\ trace.meta = NoFile
    /\ trace.in.cache
    /\ cacheFiles # {}
    /\ exit = MetadataError

\* The requests of two runs are the same: same image, selectors and
\* animation, and the same terminal, message and ratio, from which cols and
\* rows derive.
SameRequest(a, b) ==
    \A f \in {"image", "format", "colors", "animate", "term", "no_bubble",
              "message", "max_height_ratio"} : a[f] = b[f]

\* The last run stored its payload and its eviction pass left the entry in
\* the cache: the entry is the file stamped with the tick of that run.
StoredAndKept ==
    /\ Rendered /\ trace.store = "stored" /\ exit.ok
    /\ \E f \in cacheFiles : f.modified = clock

\* A step that is a run of the same request as the last run, cache enabled,
\* the image's metadata as the last run found it.
RepeatsRequest ==
    /\ clock' # clock
    /\ trace'.reached /\ trace'.in.cache
    /\ SameRequest(trace.in, trace'.in)
    /\ imageMeta = trace.meta

HitWithPayload ==
    /\ chafaRuns' = <<>>
    /\ exit'.ok
    /\ trace'.lookup = "hit"
    /\ stdout'[Len(stdout')] = Printed("image", Payload)

ToolMissing(tool) ==
    \/ tool.override = "dangling"
    \/ tool.override = "unset" /\ ~tool.on_path

\* C14: a run that gets past the configuration while the renderer is
\* missing, however its location is resolved, ends in an error before any
\* rendering: nothing is printed and no renderer process is attempted.
C14_MissingToolAbortsAtStartup ==
    (trace.ran /\ trace.in.config = "ok" /\ ToolMissing(trace.in.tool))
        => /\ ~exit.ok
           /\ ~trace.reached
           /\ stdout = <<>>
           /\ chafaRuns = <<>>

\* A step that is a run reaching render_image with the cache disabled.
UncachedRun == clock' # clock /\ trace'.reached /\ ~trace'.in.cache

CacheUntouched ==
    /\ cacheFiles' = cacheFiles
    /\ cacheDirExists' = cacheDirExists
    /\ trace'.lookup = "none" /\ trace'.store = "none"
    /\ trace'.removed = {}

\* C19 as stated: a run with the cache disabled leaves the cache directory
\* as it was (nothing read, touched, created or removed, the directory not
\* created) and starts the renderer, on every call.
C19_DisabledCacheUntouched ==
    [][UncachedRun => (CacheUntouched /\ chafaRuns' # <<>>)]_vars

\* C19 amended: it leaves the cache directory as it was on every call, and
\* starts the renderer on every call in which the image's metadata can be
\* read; when it cannot, the run ends with the metadata error and no
\* renderer is started.
C19_DisabledCacheUntouchedRenders ==
    [][UncachedRun =>
          /\ CacheUntouched
          /\ IF imageMeta = NoFile
             THEN chafaRuns' = <<>> /\ exit' = MetadataError
             ELSE chafaRuns' # <<>>]_vars

\* A run with the cache disabled whose request has an entry in the cache:
\* it started the renderer and printed the renderer's payload, which is
\* not the entry's.
C19_Witness ==
    /\ Rendered /\ ~trace.in.cache
    /\ RendererSucceeded /\ exit.ok
    /\ \E f \in cacheFiles :
          /\ trace.path = Some(f.name)
          /\ f.modified < clock
          /\ f.contents # Payload

\* A step that is a run whose renderer failed: the last process it started
\* could not be started or exited non-zero.
RendererFailedStep ==
    /\ clock' # clock
    /\ trace'.reached
    /\ chafaRuns' # <<>>
    /\ ~Exited(chafaRuns'[Len(chafaRuns')].outcome, TRUE)

\* C21: a run whose renderer finally fails (the first process failed and
\* there was no retry, or the retry failed too) ends with an error and
\* leaves the cache as it was: no file created or overwritten, the
\* directory not created, nothing stored and no eviction pass.
C21_FailedRenderLeavesCache ==
    [][RendererFailedStep =>
          /\ ~exit'.ok
          /\ exit'.err.msg \in {"chafa failed", "running chafa"}
          /\ cacheFiles' = cacheFiles
          /\ cacheDirExists' = cacheDirExists
          /\ trace'.store = "none"
          /\ trace'.removed = {}]_vars

\* A run with the cache enabled whose first process and retry both exited
\* non-zero, over a cache that holds the entry of an earlier request and
\* none for this one.
C21_Witness ==
    /\ Rendered /\ trace.in.cache
    /\ Len(chafaRuns) = 2
    /\ Exited(chafaRuns[1].outcome, FALSE)
    /\ Exited(chafaRuns[2].outcome, FALSE)
    /\ exit = ChafaFailed(chafaRuns[2].outcome.stderr)
    /\ trace.lookup = "absent"
    /\ cacheFiles # {}
    /\ \A f \in cacheFiles : trace.path # Some(f.name) /\ f.contents # <<>>

\* A step that is a run of the same request as the last run, cache enabled,
\* after the image has been modified: its metadata can be read and its
\* modification time is not the one the last run found.
RepeatsRequestOnModifiedImage ==
    /\ clock' # clock
    /\ trace'.reached /\ trace'.in.cache
    /\ SameRequest(trace.in, trace'.in)
    /\ imageMeta # NoFile /\ trace.meta # NoFile
    /\ imageMeta.modified # trace.meta.modified

\* C22: after a run has stored its entry and kept it, a run of the same
\* request on the image with a different modification time computes a
\* different key, finds no entry for it and starts the renderer: the stored
\* payload is not returned.
C22_ModifiedImageMisses ==
    [][(StoredAndKept /\ RepeatsRequestOnModifiedImage) =>
          /\ trace'.path # trace.path
          /\ trace'.lookup = "absent"
          /\ chafaRuns' # <<>>]_vars

(***************************************************************************)
(* Properties of sequences of cache-enabled renders (SpecLru).             *)
(***************************************************************************)
\* The tick of the last store or hit of an entry that the step's eviction
\* pass removed: the step's own tick for the entry it has just stored.
UseOfRemoved(n) == IF trace'.path = Some(n) THEN clock' ELSE lastUse[n]

\* The pass of the step removed no entry used after one it left.
RemovedLeastRecent ==
    \A r \in trace'.removed : \A n \in Names(cacheFiles') :
        UseOfRemoved(r) <= lastUse'[n]

\* A hit leaves the hit entry with the latest modification time.
HitIsMostRecent ==
    trace'.lookup = "hit" =>
        \A f, g \in cacheFiles' :
            (trace'.path = Some(f.name) /\ g # f) => g.modified < f.modified

C18_HitChangesOnlyMtime ==
    [][/\ (clock' # clock /\ trace'.lookup = "hit") =>
            /\ Names(cacheFiles') = Names(cacheFiles)
            /\ \A f \in cacheFiles : \E g \in cacheFiles' :
                  /\ g.name = f.name
                  /\ g.contents = f.contents
                  /\ g.modified = f.modified \/ trace'.path = Some(f.name)
            /\ trace'.store = "none" /\ trace'.removed = {}
            /\ cacheDirExists' = cacheDirExists
       /\ Names(cacheFiles) \ Names(cacheFiles') # {} =>
            /\ trace'.store = "stored"
            /\ Names(cacheFiles) \ Names(cacheFiles') \subseteq trace'.removed
      ]_vars

\* A hit on the older of two entries: both are still there, the other with
\* the time it had, the hit one with the time of the hit.
C18_Witness ==
    /\ Rendered /\ trace.lookup = "hit" /\ clock = 3
    /\ Cardinality(cacheFiles) = 2
    /\ {f.modified : f \in cacheFiles} = {2, 3}
    /\ \E f \in cacheFiles : trace.path = Some(f.name) /\ f.modified = 3

(***************************************************************************)
(* Properties of render_bubble (SpecBubble).                               *)
(***************************************************************************)
\* C12: for every message and every terminal width of at most 14 columns,
\* 14 included, the layout is exactly one line, the message itself.
C12_NarrowIsOneLine ==
    (fnResult.called /\ fnArgs.term_cols <= 14)
        => fnResult.lines = <<fnArgs.text>>

\* A message of three words, one of them wider than any bubble a terminal
\* of 15 columns gets, laid out at 14 columns.
C12_Witness ==
    /\ fnResult.called
    /\ fnArgs.term_cols = 14
    /\ Len(SplitWords(fnArgs.text, <<>>)) = 3
    /\ Len(fnArgs.text) > 14
    /\ fnResult.lines = <<fnArgs.text>>

Boxed == fnResult.called /\ fnArgs.term_cols > 14

\* The content lines of a boxed layout, and what each holds between its
\* side characters and their spaces, trailing padding removed.
ContentLines == SubSeq(fnResult.lines, 2, Len(fnResult.lines) - 1)

Inner(line) == trim_end(SubSeq(line, 3, Len(line) - 2))

Longest == MaxLen([i \in 1..Len(ContentLines) |-> Inner(ContentLines[i])])

Borders == {fnResult.lines[1], fnResult.lines[Len(fnResult.lines)]}

\* C13 as stated: above the narrow threshold every line of the layout, the
\* borders included, has one and the same length, the longest wrapped
\* line's plus a fixed padding.
C13_AllLinesSameLength ==
    Boxed =>
        \E k \in 0..8 :
            \A i \in 1..Len(fnResult.lines) :
                str_len(fnResult.lines[i]) = Longest + k

\* C13 amended: every content line is as long (in bytes, as str::len
\* counts) as the longest wrapped line plus 4; the top and the bottom
\* border are one shorter, the longest wrapped line plus 3.
C13_ContentAndBorderLengths ==
    Boxed =>
        /\ Len(fnResult.lines) >= 3
        /\ \A i \in 1..Len(ContentLines) :
              str_len(ContentLines[i]) = Longest + 4
        /\ \A b \in Borders : str_len(b) = Longest + 3

\* A box of three content lines or more whose wrapped lines differ in
\* length, one of them holding a two-byte character.
C13_Witness ==
    /\ Boxed
    /\ Len(ContentLines) >= 3
    /\ \E i, j \in 1..Len(ContentLines) :
          /\ str_len(Inner(ContentLines[i])) < str_len(Inner(ContentLines[j]))
          /\ str_len(ContentLines[i]) = str_len(ContentLines[j])
          /\ Len(ContentLines[i]) # str_len(ContentLines[i])

\* The lines the message wraps into at the bubble's width: the terminal's
\* columns less 4, at most 60.
Wrapped ==
    wrap(fnArgs.text,
         IF fnArgs.term_cols - 4 < 60 THEN fnArgs.term_cols - 4 ELSE 60)

\* The side characters the claim gives content line i of n.
Frame(i, n) ==
    IF n = 1 THEN <<"<", ">">>
    ELSE IF i = 1 THEN <<"/", "\\">>
    ELSE IF i = n THEN <<"\\", "/">>
    ELSE <<"|", "|">>

\* C20: above the narrow threshold a message that wraps into n >= 1 lines is
\* laid out in n + 2 lines: a space and (longest + 2) underscores, the n
\* wrapped lines in order, each between its side characters and a space on
\* either side, and a space and (longest + 2) dashes; the sides are < and >
\* for n = 1, otherwise / \ on the first line, \ / on the last and | | on
\* the lines between.
C20_BoxShape ==
    Boxed =>
        LET n == Len(Wrapped)
            lines == fnResult.lines
        IN  /\ n >= 1
            /\ Len(lines) = n + 2
            /\ lines[1] = <<" ">> \o [i \in 1..(MaxLen(Wrapped) + 2) |-> "_"]
            /\ lines[n + 2] =
                  <<" ">> \o [i \in 1..(MaxLen(Wrapped) + 2) |-> "-"]
            /\ \A i \in 1..n :
                  LET line == lines[i + 1]
                  IN  /\ Len(line) >= 4
                      /\ line[1] = Frame(i, n)[1]
                      /\ line[2] = " "
                      /\ line[Len(line) - 1] = " "
                      /\ line[Len(line)] = Frame(i, n)[2]
                      /\ Inner(line) = Wrapped[i]

\* A message laid out in three content lines or more: slashes on the first
\* and the last, bars between.
C20_Witness ==
    /\ Boxed
    /\ Len(fnResult.lines) >= 5
    /\ fnResult.lines[2][1] = "/"
    /\ fnResult.lines[3][1] = "|"
    /\ fnResult.lines[Len(fnResult.lines) - 1][1] = "\\"

=============================================================================
